---- MODULE Spec2Model ----
(***************************************************************************)
(* mxvm: the view-model registry, its locator, and the Binder lifecycle    *)
(* (class component of src/src/mxvm.tsx, its earlier revision in           *)
(* src/unnamed/part_000, and the useBinder hook).                          *)
(*                                                                         *)
(* JavaScript is single threaded: every handler below runs to completion,  *)
(* so each handler is one action.  What happens inside a handler (calls to *)
(* the resolver, to onBind/onUnbind, and lifecycle dispatches) is recorded *)
(* in order in the Binder's call log, each entry with the Registry         *)
(* membership of its instance at the moment of the call.                   *)
(***************************************************************************)
EXTENDS Integers, Sequences, FiniteSets, TLC

\* ------------------------------------------------------------------ bounds
NumBinders == 2
NumInstances == 3
MaxUpdates == 1
NumLocated == 2

Binders == 1..NumBinders
\* view-model objects, told apart by identity only
Instances == 1..NumInstances
\* ViewModelIdentifier tokens
Ids == {"UserVM", "OtherVM"}

\* ------------------------------------------------------------ JS values
\* an absent optional prop (viewModel?: TViewModel)
Undefined == 0
\* the null of locateFirst
Null == -1
PropValues == {Undefined, Null} \cup Instances

\* JS truthiness of a value that is a view-model object, null or undefined
Truthy(v) == v \in Instances

LooseNeq_Strict(a, b) == a # b

\* a != b : loose inequality; null == undefined, objects compare by identity
LooseNeq(a, b) == ~(a = b \/ {a, b} \subseteq {Undefined, Null})

Lifecycle == {"onActivate", "onViewLoaded", "onDeactivate"}

\* Partial<BoundViewModelLifecycle>: the lifecycle methods an instance has.
\* Instance 1 has all three, 2 lacks onActivate, 3 lacks onViewLoaded and
\* onDeactivate, every fourth has none.
Implements(v) ==
    CASE v % 4 = 1 -> {"onActivate", "onViewLoaded", "onDeactivate"}
      [] v % 4 = 2 -> {"onViewLoaded", "onDeactivate"}
      [] v % 4 = 3 -> {"onActivate"}
      [] OTHER -> {}

Range(s) == {s[i] : i \in 1..Len(s)}

\* --------------------------------------------------- Set (insertion order)
\* Set.prototype.add: no effect when the element is already a member
SetAdd(s, m) == IF m \in Range(s) THEN s ELSE Append(s, m)

\* Set.prototype.delete
SetDelete(s, m) == SelectSeq(s, LAMBDA x : x # m)

\* -------------------------------------------------- DefaultViewModelRegistry
\* _buckets is a Map: a function whose domain is the set of keys, each key
\* holding a Set in insertion order.

removeInstance_NoPrune(bk, identifier, m) ==
    IF identifier \in DOMAIN bk
    THEN [bk EXCEPT ![identifier] = SetDelete(bk[identifier], m)]
    ELSE bk

addInstance_NewKeyOnly(bk, identifier, m) ==
    IF identifier \in DOMAIN bk
    THEN bk
    ELSE [k \in DOMAIN bk \cup {identifier} |->
             IF k = identifier THEN <<m>> ELSE bk[k]]

addInstance(bk, identifier, m) ==
    LET instances == IF identifier \in DOMAIN bk THEN bk[identifier] ELSE << >>
    IN  [k \in DOMAIN bk \cup {identifier} |->
            IF k = identifier THEN SetAdd(instances, m) ELSE bk[k]]

removeInstance_DropKey(bk, identifier, m) ==
    [k \in DOMAIN bk \ {identifier} |-> bk[k]]

removeInstance(bk, identifier, m) ==
    IF identifier \in DOMAIN bk
    THEN LET instances == SetDelete(bk[identifier], m)
         IN  IF Len(instances) = 0
             THEN [k \in DOMAIN bk \ {identifier} |-> bk[k]]
             ELSE [bk EXCEPT ![identifier] = instances]
    ELSE bk

\* ------------------------------------------------------------ ViewModelLocator
\* Array.from(instances.get(id) || new Set())
locateMany(bk, vmIdentifier) ==
    IF vmIdentifier \in DOMAIN bk THEN bk[vmIdentifier] ELSE << >>

locateFirst_OnlyWhenSingle(bk, vmIdentifier) ==
    LET many == locateMany(bk, vmIdentifier)
    IN  IF Len(many) = 1 THEN many[1] ELSE Null

\* locateMany(id)[0] || null
locateFirst(bk, vmIdentifier) ==
    LET many == locateMany(bk, vmIdentifier)
    IN  IF Len(many) > 0 /\ Truthy(many[1]) THEN many[1] ELSE Null

Returned_TheSetItself(k, array) == [id |-> k, array |-> array, aliases |-> TRUE]

\* what a caller of locateMany holds: Array.from built a new array from the
\* Set, so the array is not an alias of the Registry's Set
Returned(k, array) == [id |-> k, array |-> array, aliases |-> FALSE]

\* the elements a caller finds in an array it holds, the Registry being bk now
Read(ret, bk) == IF ret.aliases THEN locateMany(bk, ret.id) ELSE ret.array

\* the instances registered under a key (empty when the key is absent)
InstancesOf(bk, k) == Range(locateMany(bk, k))

\* ------------------------------------------------------------------ state
VARIABLES
    buckets,       \* DefaultViewModelRegistry._buckets
    calls,         \* the last two direct calls made on the Registry
    held,          \* the last call made on the Locator and what it returned
    kind,          \* per Binder: "Binder", "BinderLegacy" (part_000), "useBinder"
    phase,         \* per Binder: "none", "constructed", "willMount", "mounted", "unmounted"
    props,         \* per Binder: this.props (viewModel, viewModelIdentifier)
    vmIdentifier,  \* per Binder: the identifier the onBind/onUnbind closures hold
    model,         \* per Binder: this.state.model / the hook's useState value
    pending,       \* per Binder: the model of a setState not yet applied
    updates,       \* updates (re-renders of a mounted Binder) so far, over all Binders
    log,           \* per Binder: the calls it made, in order
    context,       \* per Binder: the MxvmContext value its entry point read
    error          \* per Binder: the message of the Error its entry point threw

binderVars == <<kind, phase, props, vmIdentifier, model, pending, updates, log, context, error>>
vars == <<buckets, calls, held, kind, phase, props, vmIdentifier, model, pending, updates, log,
         context, error>>

\* one entry of a Binder's call log: what was called, on or with which
\* instance, with which identifier and arguments, and whether that instance
\* was registered under the Binder's identifier when the call was made
Event(ev, vm, id, arg, reg) ==
    [ev |-> ev, vm |-> vm, id |-> id, arg |-> arg, reg |-> reg]

\* a handler was entered with these props
Marker(name, p) == Event(name, p.viewModel, p.viewModelIdentifier, "this.props", FALSE)

Registered(bk, k, v) == v \in InstancesOf(bk, k)

\* ------------------------------------------------------------ MxvmContext
\* MxvmContextProps {resolver?, registry?}: which of the two the context holds
ContextValues == [resolver : BOOLEAN, registry : BOOLEAN]

\* React.createContext<MxvmContextProps>({})
DefaultContext == [resolver |-> FALSE, registry |-> FALSE]

NoError == "none"

contextError_ResolverOnly(ctx) ==
    IF ~ctx.resolver THEN "Resolver has not been provided!" ELSE NoError

\* the check both entry points make on the context before anything else:
\* if (!resolver) throw ...; if (!registry) throw ...
contextError(ctx) ==
    IF ~ctx.resolver THEN "Resolver has not been provided!"
    ELSE IF ~ctx.registry THEN "Registry has not been provided!"
    ELSE NoError

Init ==
    /\ buckets = << >>
    /\ calls = << >>
    /\ held = [op |-> "none", id |-> "UserVM", ret |-> Returned("UserVM", << >>), value |-> Null]
    /\ kind = [b \in Binders |-> "none"]
    /\ phase = [b \in Binders |-> "none"]
    /\ props = [b \in Binders |-> [viewModel |-> Undefined, viewModelIdentifier |-> "UserVM"]]
    /\ vmIdentifier = [b \in Binders |-> "UserVM"]
    /\ model = [b \in Binders |-> Undefined]
    /\ pending = [b \in Binders |-> Undefined]
    /\ updates = 0
    /\ log = [b \in Binders |-> << >>]
    /\ context = [b \in Binders |-> DefaultContext]
    /\ error = [b \in Binders |-> NoError]

\* ------------------------------------------- direct calls on the Registry
Last2(s, c) == IF Len(s) = 0 THEN <<c>> ELSE <<s[Len(s)], c>>

CallAddInstance(k, v) ==
    /\ buckets' = addInstance(buckets, k, v)
    /\ calls' = Last2(calls, [op |-> "addInstance", id |-> k, vm |-> v])
    /\ UNCHANGED <<held, binderVars>>

CallRemoveInstance(k, v) ==
    /\ buckets' = removeInstance(buckets, k, v)
    /\ calls' = Last2(calls, [op |-> "removeInstance", id |-> k, vm |-> v])
    /\ UNCHANGED <<held, binderVars>>

\* ------------------------------------------- direct calls on the Locator
\* locator.locateMany(k): the caller keeps the array it got
CallLocateMany(k) ==
    /\ held' = [op |-> "locateMany", id |-> k,
                ret |-> Returned(k, locateMany(buckets, k)), value |-> Null]
    /\ UNCHANGED <<buckets, calls, binderVars>>

\* locator.locateFirst(k) (locate(k) in the earlier revision): the array it
\* builds is not handed out
CallLocateFirst(k) ==
    /\ held' = [op |-> "locateFirst", id |-> k,
                ret |-> Returned(k, << >>),
                value |-> locateFirst(buckets, k)]
    /\ UNCHANGED <<buckets, calls, binderVars>>

\* ---------------------------------------------------- inside the handlers
\* A handler works on w = [buckets, log]: the Registry and the Binder's log.

onBind_Unregistered(w, k, vm) ==
    [w EXCEPT !.log = Append(@, Event("onBind", vm, k, "vm", Registered(w.buckets, k, vm)))]

\* bindViewModel / useViewModel: onBind = vm => registry.addInstance(vmIdentifier, vm)
onBind(w, k, vm) ==
    [buckets |-> addInstance(w.buckets, k, vm),
     log |-> Append(w.log, Event("onBind", vm, k, "vm", Registered(w.buckets, k, vm)))]

onUnbind_NoRemoval(w, k, vm) ==
    [w EXCEPT !.log = Append(@, Event("onUnbind", vm, k, "vm", Registered(w.buckets, k, vm)))]

\* bindViewModel / useViewModel: onUnbind = vm => registry.removeInstance(vmIdentifier, vm)
onUnbind(w, k, vm) ==
    [buckets |-> removeInstance(w.buckets, k, vm),
     log |-> Append(w.log, Event("onUnbind", vm, k, "vm", Registered(w.buckets, k, vm)))]

\* what the lifecycle method receives: the class Binder spreads its arguments
\* (action.call(lifecycle, ...args)), the earlier revision passes the args
\* array itself (action.call(lifecycle, args)), the hook passes nothing
Received(knd, arg) ==
    CASE knd = "Binder" -> arg
      [] knd = "BinderLegacy" -> (CASE arg = "props" -> "[props]"
                                    [] arg = "viewRef" -> "[viewRef]"
                                    [] OTHER -> "[]")
      [] OTHER -> "none"

\* notifyOfViewLifecycle(x => x.method, ...args) on the bound instance m
notifyOfViewLifecycle(w, knd, k, m, method, arg) ==
    IF method \in Implements(m)
    THEN [w EXCEPT !.log = Append(@, Event(method, m, k, Received(knd, arg),
                                            Registered(w.buckets, k, m)))]
    ELSE w

resolveModel_ResolverFirst(w, k, p, r) ==
    [model |-> r,
     w |-> [w EXCEPT !.log = Append(@, Event("viewModelResolver", r,
                     p.viewModelIdentifier, "props", Registered(w.buckets, k, r)))]]

\* resolveModel: viewModel || viewModelResolver(viewModelIdentifier, props),
\* r being what the resolver returns if it is called
resolveModel(w, k, p, r) ==
    IF Truthy(p.viewModel)
    THEN [model |-> p.viewModel, w |-> w]
    ELSE [model |-> r,
          w |-> [w EXCEPT !.log = Append(@, Event("viewModelResolver", r,
                          p.viewModelIdentifier, "props", Registered(w.buckets, k, r)))]]

\* the resolver result that is drawn when the resolver is not called
Unused(p, r) == Truthy(p.viewModel) => r = p.viewModel

\* ----------------------------------------- the bodies of the handlers
didMount_ViewLoadedFirst(w, knd, k, m) ==
    LET w1 == notifyOfViewLifecycle(w, knd, k, m, "onViewLoaded", "viewRef")
    IN  notifyOfViewLifecycle(w1, knd, k, m, "onActivate", "props")

\* mxvm.tsx componentDidMount: notify onActivate with this.props, then
\* onViewLoaded with this.viewRef
didMount(w, knd, k, m) ==
    LET w1 == notifyOfViewLifecycle(w, knd, k, m, "onActivate", "props")
    IN  notifyOfViewLifecycle(w1, knd, k, m, "onViewLoaded", "viewRef")

viewModelChanged_AnyProp(p, prevProps) ==
    \/ LooseNeq(p.viewModel, prevProps.viewModel)
    \/ p.viewModelIdentifier # prevProps.viewModelIdentifier

\* componentDidUpdate: viewModel != prevProps.viewModel
viewModelChanged(p, prevProps) == LooseNeq(p.viewModel, prevProps.viewModel)

SetState(w, k, newModel) ==
    [w EXCEPT !.log = Append(@, Event("setState", newModel, k, "model",
                                       Registered(w.buckets, k, newModel)))]

rebind_BindBeforeUnbind(w, knd, k, m, p, r) ==
    LET res == resolveModel(w, k, p, r)
        w1 == onBind(res.w, k, res.model)
        w2 == notifyOfViewLifecycle(w1, knd, k, m, "onDeactivate", "none")
        w3 == onUnbind(w2, k, m)
    IN  [model |-> res.model, w |-> SetState(w3, k, res.model)]

rebind_ResolveFirst(w, knd, k, m, p, r) ==
    LET res == resolveModel(w, k, p, r)
        w1 == notifyOfViewLifecycle(res.w, knd, k, m, "onDeactivate", "none")
        w2 == onUnbind(w1, k, m)
    IN  [model |-> res.model, w |-> SetState(w2, k, res.model)]

rebind_UnbindNew(w, knd, k, m, p, r) ==
    LET w1 == notifyOfViewLifecycle(w, knd, k, m, "onDeactivate", "none")
        res == resolveModel(w1, k, p, r)
        w2 == onUnbind(res.w, k, res.model)
    IN  [model |-> res.model, w |-> SetState(w2, k, res.model)]

\* componentDidUpdate, the branch taken when the viewModel prop changed:
\* notify onDeactivate on state.model (m), onUnbind(state.model),
\* newModel = resolveModel(), setState({model: newModel}, callback)
rebind(w, knd, k, m, p, r) ==
    LET w1 == notifyOfViewLifecycle(w, knd, k, m, "onDeactivate", "none")
        w2 == onUnbind(w1, k, m)
        res == resolveModel(w2, k, p, r)
    IN  [model |-> res.model, w |-> SetState(res.w, k, res.model)]

willUnmount_UnbindFirst(w, knd, k, m) ==
    notifyOfViewLifecycle(onUnbind(w, k, m), knd, k, m, "onDeactivate", "none")

\* componentWillUnmount: notify onDeactivate on state.model, then onUnbind(state.model)
willUnmount(w, knd, k, m) ==
    onUnbind(notifyOfViewLifecycle(w, knd, k, m, "onDeactivate", "none"), k, m)

\* ------------------------------------------------- the class Binder
ClassKinds == {"Binder", "BinderLegacy"}

\* The two revisions of the module name the Registry's methods differently
\* (addInstance / registerInstance), so the Binders that share one Registry
\* all come from the same revision; the hook exists in mxvm.tsx only.
SameRevision(b, knd) ==
    \A c \in Binders \ {b} :
        phase[c] # "none" => ((kind[c] = "BinderLegacy") <=> (knd = "BinderLegacy"))

\* the handler's result w is stored back: the Registry and this Binder's log
Commit(b, w) ==
    /\ buckets' = w.buckets
    /\ log' = [log EXCEPT ![b] = w.log]

\* constructor: model = this.resolveModel(); this.state = {model}; this.props.onBind(model).
\* bindViewModel renders the Binder with viewModel = model prop and
\* viewModelIdentifier = vmIdentifier.
constructor(b, knd, k, vm, r) ==
    /\ phase[b] = "none"
    /\ SameRevision(b, knd)
    /\ LET p == [viewModel |-> vm, viewModelIdentifier |-> k]
           w0 == [buckets |-> buckets, log |-> Append(log[b], Marker("constructor", p))]
           res == resolveModel(w0, k, p, r)
           w1 == onBind(res.w, k, res.model)
       IN  /\ Unused(p, r)
           /\ props' = [props EXCEPT ![b] = p]
           /\ model' = [model EXCEPT ![b] = res.model]
           /\ Commit(b, w1)
    /\ kind' = [kind EXCEPT ![b] = knd]
    /\ vmIdentifier' = [vmIdentifier EXCEPT ![b] = k]
    /\ phase' = [phase EXCEPT ![b] = "constructed"]
    /\ UNCHANGED <<calls, held, pending, updates>>

\* mxvm.tsx componentDidMount: onActivate(this.props), then onViewLoaded(this.viewRef)
componentDidMount(b) ==
    /\ kind[b] = "Binder"
    /\ phase[b] = "constructed"
    /\ LET w0 == [buckets |-> buckets, log |-> Append(log[b], Marker("componentDidMount", props[b]))]
       IN  Commit(b, didMount(w0, kind[b], vmIdentifier[b], model[b]))
    /\ phase' = [phase EXCEPT ![b] = "mounted"]
    /\ UNCHANGED <<calls, held, kind, props, vmIdentifier, model, pending, updates, context, error>>

\* part_000 componentWillMount: onActivate(this.props)
componentWillMount(b) ==
    /\ kind[b] = "BinderLegacy"
    /\ phase[b] = "constructed"
    /\ LET k == vmIdentifier[b]
           w0 == [buckets |-> buckets, log |-> Append(log[b], Marker("componentWillMount", props[b]))]
           w1 == notifyOfViewLifecycle(w0, kind[b], k, model[b], "onActivate", "props")
       IN  Commit(b, w1)
    /\ phase' = [phase EXCEPT ![b] = "willMount"]
    /\ UNCHANGED <<calls, held, kind, props, vmIdentifier, model, pending, updates, context, error>>

\* part_000 componentDidMount: onViewLoaded(this.viewRef)
componentDidMountLegacy(b) ==
    /\ kind[b] = "BinderLegacy"
    /\ phase[b] = "willMount"
    /\ LET k == vmIdentifier[b]
           w0 == [buckets |-> buckets, log |-> Append(log[b], Marker("componentDidMount", props[b]))]
           w1 == notifyOfViewLifecycle(w0, kind[b], k, model[b], "onViewLoaded", "viewRef")
       IN  Commit(b, w1)
    /\ phase' = [phase EXCEPT ![b] = "mounted"]
    /\ UNCHANGED <<calls, held, kind, props, vmIdentifier, model, pending, updates, context, error>>

\* The Binder is re-rendered with props (vm, id) and componentDidUpdate(prevProps)
\* runs.  If viewModel != prevProps.viewModel: onDeactivate on state.model,
\* onUnbind(state.model), newModel = resolveModel(), setState({model: newModel},
\* () => onBind(newModel)).  The setState is applied later (setStateCallback).
componentDidUpdate(b, vm, id, r) ==
    /\ kind[b] \in ClassKinds
    /\ phase[b] = "mounted"
    /\ pending[b] = Undefined
    /\ updates < MaxUpdates
    /\ LET prevProps == props[b]
           p == [viewModel |-> vm, viewModelIdentifier |-> id]
           k == vmIdentifier[b]
           w0 == [buckets |-> buckets,
                  log |-> log[b] \o <<Marker("prevProps", prevProps),
                                     Marker("componentDidUpdate", p)>>]
       IN  /\ props' = [props EXCEPT ![b] = p]
           /\ IF viewModelChanged(p, prevProps)
              THEN LET res == rebind(w0, kind[b], k, model[b], p, r)
                   IN  /\ Unused(p, r)
                       /\ pending' = [pending EXCEPT ![b] = res.model]
                       /\ Commit(b, res.w)
              ELSE /\ r = 1    \* resolveModel is not reached: r is not used
                   /\ pending' = pending
                   /\ Commit(b, w0)
    /\ updates' = updates + 1
    /\ UNCHANGED <<calls, held, kind, phase, vmIdentifier, model, context, error>>

setStateCallback_Activates(b) ==
    /\ pending[b] # Undefined
    /\ LET w0 == [buckets |-> buckets, log |-> log[b]]
           w1 == onBind(w0, vmIdentifier[b], pending[b])
       IN  Commit(b, didMount(w1, kind[b], vmIdentifier[b], pending[b]))
    /\ model' = [model EXCEPT ![b] = pending[b]]
    /\ pending' = [pending EXCEPT ![b] = Undefined]
    /\ UNCHANGED <<calls, held, kind, phase, props, vmIdentifier, updates, context, error>>

\* the pending setState is applied (state.model = newModel) and its callback
\* runs: () => this.props.onBind(newModel)
setStateCallback(b) ==
    /\ pending[b] # Undefined
    /\ LET w0 == [buckets |-> buckets, log |-> log[b]]
           w1 == onBind(w0, vmIdentifier[b], pending[b])
       IN  Commit(b, w1)
    /\ model' = [model EXCEPT ![b] = pending[b]]
    /\ pending' = [pending EXCEPT ![b] = Undefined]
    /\ UNCHANGED <<calls, held, kind, phase, props, vmIdentifier, updates, context, error>>

\* componentWillUnmount: onDeactivate on state.model, then onUnbind(state.model)
componentWillUnmount(b) ==
    /\ kind[b] \in ClassKinds
    /\ phase[b] = "mounted"
    /\ pending[b] = Undefined
    /\ LET w0 == [buckets |-> buckets, log |-> Append(log[b], Marker("componentWillUnmount", props[b]))]
       IN  Commit(b, willUnmount(w0, kind[b], vmIdentifier[b], model[b]))
    /\ phase' = [phase EXCEPT ![b] = "unmounted"]
    /\ UNCHANGED <<calls, held, kind, props, vmIdentifier, model, pending, updates, context, error>>

\* ------------------------------------------------------ the useBinder hook
\* the resolver call of a render: viewModelResolver(viewModelIdentifier)
useStateArgument(w, k, id, r) ==
    [w EXCEPT !.log = Append(@, Event("viewModelResolver", r, id, "none",
                                       Registered(w.buckets, k, r)))]

\* first render: const [model] = useState(viewModelResolver(viewModelIdentifier))
useBinderRender(b, k, r) ==
    /\ phase[b] = "none"
    /\ SameRevision(b, "useBinder")
    /\ LET p == [viewModel |-> Undefined, viewModelIdentifier |-> k]
           w0 == [buckets |-> buckets, log |-> Append(log[b], Marker("useBinder", p))]
           w1 == useStateArgument(w0, k, k, r)
       IN  /\ props' = [props EXCEPT ![b] = p]
           /\ Commit(b, w1)
    /\ model' = [model EXCEPT ![b] = r]
    /\ kind' = [kind EXCEPT ![b] = "useBinder"]
    /\ vmIdentifier' = [vmIdentifier EXCEPT ![b] = k]
    /\ phase' = [phase EXCEPT ![b] = "constructed"]
    /\ UNCHANGED <<calls, held, pending, updates>>

\* the effect, once after the first render: onBind(model); onActivate
useBinderEffect(b) ==
    /\ kind[b] = "useBinder"
    /\ phase[b] = "constructed"
    /\ LET k == vmIdentifier[b]
           w0 == [buckets |-> buckets, log |-> Append(log[b], Marker("useEffect", props[b]))]
           w1 == onBind(w0, k, model[b])
           w2 == notifyOfViewLifecycle(w1, kind[b], k, model[b], "onActivate", "none")
       IN  Commit(b, w2)
    /\ phase' = [phase EXCEPT ![b] = "mounted"]
    /\ UNCHANGED <<calls, held, kind, props, vmIdentifier, model, pending, updates, context, error>>

useBinderRerender_NewState(b, id, r) ==
    /\ kind[b] = "useBinder"
    /\ phase[b] = "mounted"
    /\ updates < MaxUpdates
    /\ LET p == [viewModel |-> Undefined, viewModelIdentifier |-> id]
           w0 == [buckets |-> buckets, log |-> Append(log[b], Marker("useBinder", p))]
           w1 == useStateArgument(w0, vmIdentifier[b], id, r)
       IN  /\ props' = [props EXCEPT ![b] = p]
           /\ Commit(b, w1)
    /\ model' = [model EXCEPT ![b] = r]
    /\ updates' = updates + 1
    /\ UNCHANGED <<calls, held, kind, phase, vmIdentifier, pending, context, error>>

\* a later render: the resolver is called again (the argument of useState is
\* evaluated), useState keeps the first model; the effect does not run again
useBinderRerender(b, id, r) ==
    /\ kind[b] = "useBinder"
    /\ phase[b] = "mounted"
    /\ updates < MaxUpdates
    /\ LET p == [viewModel |-> Undefined, viewModelIdentifier |-> id]
           w0 == [buckets |-> buckets, log |-> Append(log[b], Marker("useBinder", p))]
           w1 == useStateArgument(w0, vmIdentifier[b], id, r)
       IN  /\ props' = [props EXCEPT ![b] = p]
           /\ Commit(b, w1)
    /\ updates' = updates + 1
    /\ UNCHANGED <<calls, held, kind, phase, vmIdentifier, model, pending, context, error>>

\* the effect's cleanup on unmount: onDeactivate; onUnbind(model)
useBinderCleanup(b) ==
    /\ kind[b] = "useBinder"
    /\ phase[b] = "mounted"
    /\ LET k == vmIdentifier[b]
           w0 == [buckets |-> buckets, log |-> Append(log[b], Marker("cleanup", props[b]))]
           w1 == notifyOfViewLifecycle(w0, kind[b], k, model[b], "onDeactivate", "none")
           w2 == onUnbind(w1, k, model[b])
       IN  Commit(b, w2)
    /\ phase' = [phase EXCEPT ![b] = "unmounted"]
    /\ UNCHANGED <<calls, held, kind, props, vmIdentifier, model, pending, updates, context, error>>

\* ---------------------------------------------------------- entry points
\* the entry point threw: nothing was rendered, no Binder exists
throw(b, knd, message) ==
    /\ phase[b] = "none"
    /\ SameRevision(b, knd)
    /\ kind' = [kind EXCEPT ![b] = knd]
    /\ phase' = [phase EXCEPT ![b] = "failed"]
    /\ error' = [error EXCEPT ![b] = message]
    /\ UNCHANGED <<buckets, calls, held, props, vmIdentifier, model, pending, updates, log>>

\* the component bindViewModel returns is rendered with model prop vm under a
\* context ctx: the Consumer callback checks the context, then renders the
\* Binder (its constructor runs)
bindViewModel(b, ctx, knd, k, vm, r) ==
    /\ phase[b] = "none"
    /\ context' = [context EXCEPT ![b] = ctx]
    /\ IF contextError(ctx) = NoError
       THEN constructor(b, knd, k, vm, r) /\ error' = error
       ELSE throw(b, knd, contextError(ctx)) /\ k = "UserVM" /\ vm = Undefined /\ r = 1

\* useViewModel is called in the first render of a function component under a
\* context ctx: it checks the context, then calls useBinder
useViewModel(b, ctx, k, r) ==
    /\ phase[b] = "none"
    /\ context' = [context EXCEPT ![b] = ctx]
    /\ IF contextError(ctx) = NoError
       THEN useBinderRender(b, k, r) /\ error' = error
       ELSE throw(b, "useBinder", contextError(ctx)) /\ k = "UserVM" /\ r = 1

\* ------------------------------------------------------- specifications
BinderStep(b) ==
    \/ \E ctx \in ContextValues, knd \in ClassKinds, k \in Ids, vm \in PropValues, r \in Instances :
          bindViewModel(b, ctx, knd, k, vm, r)
    \/ componentDidMount(b)
    \/ componentWillMount(b)
    \/ componentDidMountLegacy(b)
    \/ \E vm \in PropValues, id \in Ids, r \in Instances : componentDidUpdate(b, vm, id, r)
    \/ setStateCallback(b)
    \/ componentWillUnmount(b)
    \/ \E ctx \in ContextValues, k \in Ids, r \in Instances : useViewModel(b, ctx, k, r)
    \/ useBinderEffect(b)
    \/ \E id \in Ids, r \in Instances : useBinderRerender(b, id, r)
    \/ useBinderCleanup(b)

\* any number of Binders sharing one Registry
Next == \E b \in Binders : BinderStep(b)

Spec == Init /\ [][Next]_vars

\* one Binder alone on the Registry
Alone(b) == \A c \in Binders \ {b} : phase[c] = "none"

\* BinderStep with no second Binder ever constructed (a Binder that is
\* constructed is then the only one, so only the two first steps are guarded)
NextSolo ==
    \E b \in Binders :
        \/ \E ctx \in ContextValues, knd \in ClassKinds, k \in Ids, vm \in PropValues, r \in Instances :
              Alone(b) /\ bindViewModel(b, ctx, knd, k, vm, r)
        \/ componentDidMount(b)
        \/ componentWillMount(b)
        \/ componentDidMountLegacy(b)
        \/ \E vm \in PropValues, id \in Ids, r \in Instances : componentDidUpdate(b, vm, id, r)
        \/ setStateCallback(b)
        \/ componentWillUnmount(b)
        \/ \E ctx \in ContextValues, k \in Ids, r \in Instances :
              Alone(b) /\ useViewModel(b, ctx, k, r)
        \/ useBinderEffect(b)
        \/ \E id \in Ids, r \in Instances : useBinderRerender(b, id, r)
        \/ useBinderCleanup(b)

SpecSolo == Init /\ [][NextSolo]_vars

\* the Registry called directly, in any order
NextRegistry ==
    \E k \in Ids, v \in Instances : CallAddInstance(k, v) \/ CallRemoveInstance(k, v)

SpecRegistry == Init /\ [][NextRegistry]_vars

\* the Registry and the Locator called directly, in any order, with the
\* instances 1..NumLocated
NextLocator ==
    \/ \E k \in Ids, v \in 1..NumLocated : CallAddInstance(k, v)
    \/ \E k \in Ids, v \in 1..NumLocated : CallRemoveInstance(k, v)
    \/ \E k \in Ids : CallLocateMany(k)
    \/ \E k \in Ids : CallLocateFirst(k)

SpecLocator == Init /\ [][NextLocator]_vars

\* ---------------------------------------------------------------- claims
LastCall == calls[Len(calls)]

\* C1: after any sequence of addInstance and removeInstance calls, an
\* identifier is a key of the registry mapping if and only if its instance
\* set is non-empty; removing the last instance under an identifier deletes
\* that identifier's key.
C1_KeyIffNonEmpty ==
    /\ \A k \in Ids : (k \in DOMAIN buckets) <=> (InstancesOf(buckets, k) # {})
    /\ \A k \in DOMAIN buckets : Len(buckets[k]) > 0

\* the last instance under a key was added and then removed: the key is gone
C1_Witness ==
    \E k \in Ids, v \in Instances :
        /\ calls = <<[op |-> "addInstance", id |-> k, vm |-> v],
                     [op |-> "removeInstance", id |-> k, vm |-> v]>>
        /\ k \notin DOMAIN buckets
        /\ DOMAIN buckets # {}

\* C2: immediately after addInstance(k, v), locateMany(k) contains v;
\* immediately after removeInstance(k, v), locateMany(k) does not contain v.
C2_AddThenRemove ==
    Len(calls) > 0 =>
        /\ LastCall.op = "addInstance" =>
              LastCall.vm \in Range(locateMany(buckets, LastCall.id))
        /\ LastCall.op = "removeInstance" =>
              LastCall.vm \notin Range(locateMany(buckets, LastCall.id))

\* v was added to a key that holds other instances and then removed again
C2_Witness ==
    \E k \in Ids, v \in Instances :
        /\ calls = <<[op |-> "addInstance", id |-> k, vm |-> v],
                     [op |-> "removeInstance", id |-> k, vm |-> v]>>
        /\ Len(locateMany(buckets, k)) > 1
        /\ v \notin Range(locateMany(buckets, k))

\* ------------------------------------------------ reading a Binder's log
\* what Binder b appended to its log in this step
NewEvents(b) == SubSeq(log'[b], Len(log[b]) + 1, Len(log'[b]))

Only(evs, names) == SelectSeq(evs, LAMBDA e : e.ev \in names)

\* this step is the constructor of class Binder b
Constructed(b) ==
    phase[b] = "none" /\ phase'[b] = "constructed" /\ kind'[b] \in ClassKinds

\* C3 as stated: for a Binder constructed with a resolver and no explicit
\* instance, immediately after construction the Registry contains exactly
\* one new instance under id, the one returned by the resolver, and nothing
\* has been dispatched.
C3_Original ==
    [][\A b \in Binders :
        (Constructed(b) /\ ~Truthy(props'[b].viewModel)) =>
            LET id == vmIdentifier'[b]
                R == Only(NewEvents(b), {"viewModelResolver"})
            IN  /\ Len(R) = 1
                /\ InstancesOf(buckets', id) \ InstancesOf(buckets, id) = {R[1].vm}
                /\ Only(log'[b], Lifecycle) = << >>]_vars

\* C3 amended: immediately after that construction the Registry's set under
\* id is the set it held before plus the instance the resolver returned (one
\* new instance if it was not registered under id yet, none if it was), every
\* other key is untouched, the instance is the Binder's model, and nothing
\* has been dispatched.
C3_ResolvedInstanceRegistered ==
    [][\A b \in Binders :
        (Constructed(b) /\ ~Truthy(props'[b].viewModel)) =>
            LET id == vmIdentifier'[b]
                R == Only(NewEvents(b), {"viewModelResolver"})
            IN  /\ Len(R) = 1
                /\ R[1].id = id
                /\ model'[b] = R[1].vm
                /\ InstancesOf(buckets', id) = InstancesOf(buckets, id) \cup {R[1].vm}
                /\ \A k \in Ids \ {id} : locateMany(buckets', k) = locateMany(buckets, k)
                /\ Only(log'[b], Lifecycle) = << >>]_vars

\* a Binder has just been constructed whose resolver returned an instance
\* that was registered under its identifier already
C3_Witness ==
    \E b \in Binders :
        /\ phase[b] = "constructed"
        /\ kind[b] \in ClassKinds
        /\ Len(log[b]) = 3
        /\ log[b][2].ev = "viewModelResolver"
        /\ log[b][3].ev = "onBind"
        /\ log[b][3].vm = log[b][2].vm
        /\ log[b][3].reg
        /\ model[b] \in InstancesOf(buckets, vmIdentifier[b])

\* --------------------------------------------------------------- C4
\* a Binder that is constructed and not unmounted
Live(b) == phase[b] \in {"constructed", "willMount", "mounted"}

\* C4: within one Binder (class or hook form), for every instance it binds:
\* the instance is registered (onBind) before any onActivate is dispatched to
\* it and is in the Registry when onActivate runs; every onDeactivate
\* dispatched to it is followed by its removal (onUnbind) and finds it still
\* in the Registry; once the unmount step is over it is in the Registry no more.
C4_RegistrationBracketsLifecycle ==
    \A b \in Binders :
        LET lg == log[b]
        IN  /\ \A i \in 1..Len(lg) :
                  lg[i].ev = "onActivate" =>
                      /\ \E j \in 1..(i - 1) : lg[j].ev = "onBind" /\ lg[j].vm = lg[i].vm
                      /\ lg[i].reg
            /\ \A i \in 1..Len(lg) :
                  lg[i].ev = "onDeactivate" =>
                      /\ i < Len(lg)
                      /\ lg[i + 1].ev = "onUnbind"
                      /\ lg[i + 1].vm = lg[i].vm
                      /\ lg[i].reg
                      /\ \A j \in 1..(i - 1) :
                            (lg[j].ev = "onUnbind" /\ lg[j].vm = lg[i].vm) =>
                                \E h \in (j + 1)..(i - 1) :
                                    lg[h].ev = "onBind" /\ lg[h].vm = lg[i].vm
            /\ phase[b] = "unmounted" =>
                  /\ lg[Len(lg)].ev = "onUnbind"
                  /\ lg[Len(lg)].vm = model[b]
                  /\ \A k \in Ids : model[b] \notin InstancesOf(buckets, k)

\* a Binder went through mount and unmount with an instance that has
\* onActivate and onDeactivate: both were dispatched while it was registered
C4_Witness ==
    \E b \in Binders :
        /\ phase[b] = "unmounted"
        /\ \E i, j \in 1..Len(log[b]) :
              /\ i < j
              /\ log[b][i].ev = "onActivate" /\ log[b][i].reg
              /\ log[b][j].ev = "onDeactivate" /\ log[b][j].reg
              /\ log[b][j].vm = model[b]
        /\ buckets = << >>

\* --------------------------------------------------------------- C5
\* this step is a componentDidUpdate of b that took the rebind branch
Rebinding(b) == pending[b] = Undefined /\ pending'[b] # Undefined

\* the positions in evs of the events named in names
Positions(evs, names) == {i \in 1..Len(evs) : evs[i].ev \in names}

\* C5: when the explicit instance prop of a mounted Binder changes to a value
\* of different identity, the old instance receives onDeactivate and is
\* removed from the Registry before the new instance is resolved, and the
\* new instance is not registered by then.
C5_OldRemovedBeforeNewResolved ==
    [][\A b \in Binders :
        Rebinding(b) =>
            LET evs == NewEvents(b)
                old == model[b]
                id == vmIdentifier[b]
                U == Positions(evs, {"onUnbind"})
                D == Positions(evs, {"onDeactivate"})
                N == Positions(evs, {"viewModelResolver", "setState"})
            IN  /\ Cardinality(U) = 1
                /\ \A u \in U : evs[u].vm = old /\ evs[u].id = id
                /\ ("onDeactivate" \in Implements(old)) <=> (D # {})
                /\ \A d \in D : evs[d].vm = old /\ \A u \in U : d < u
                /\ N # {}
                /\ \A n \in N : \A u \in U : u < n
                /\ Positions(evs, {"onBind"}) = {}
                /\ InstancesOf(buckets', id) = InstancesOf(buckets, id) \ {old}
                /\ LooseNeq(props'[b].viewModel, props[b].viewModel)]_vars

\* a rebind is under way: the old instance got onDeactivate, was removed, and
\* then the resolver was called for the new one
C5_Witness ==
    \E b \in Binders :
        /\ pending[b] # Undefined
        /\ pending[b] # model[b]
        /\ Len(log[b]) > 4
        /\ LET n == Len(log[b])
           IN  /\ log[b][n - 3].ev = "onDeactivate" /\ log[b][n - 3].vm = model[b]
               /\ log[b][n - 2].ev = "onUnbind" /\ log[b][n - 2].vm = model[b]
               /\ log[b][n - 1].ev = "viewModelResolver"
               /\ log[b][n].ev = "setState" /\ log[b][n].vm = pending[b]
        /\ model[b] \notin InstancesOf(buckets, vmIdentifier[b])

\* --------------------------------------------------------------- C6
\* the instances of Binder b that the Registry shows under b's identifier
Shown(b) == InstancesOf(buckets, vmIdentifier[b]) \cap {model[b], pending[b]}

\* C6 as stated: at every point of a Binder's life, a rebind included,
\* exactly one instance of that Binder is in the Registry.
C6_Original ==
    \A b \in Binders :
        (kind[b] \in ClassKinds /\ Live(b)) => Cardinality(Shown(b)) = 1

\* C6 amended: the Registry never shows both the old and the new instance of
\* a Binder; from the removal of the old instance in componentDidUpdate until
\* the setState callback registers the new one it shows none, and at every
\* other point of the Binder's life exactly one, the bound instance.
C6_NeverTwoZeroWhileRebinding ==
    \A b \in Binders :
        (kind[b] \in ClassKinds /\ Live(b)) =>
            /\ Cardinality(InstancesOf(buckets, vmIdentifier[b])) <= 1
            /\ IF pending[b] # Undefined
               THEN /\ Shown(b) = {}
                    /\ log[b][Len(log[b])].ev = "setState"
                    /\ ~log[b][Len(log[b])].reg
               ELSE Shown(b) = {model[b]}

\* a rebind from one instance to another is under way and the Registry is empty
C6_Witness ==
    \E b \in Binders :
        /\ kind[b] = "Binder"
        /\ phase[b] = "mounted"
        /\ pending[b] \in Instances
        /\ pending[b] # model[b]
        /\ Truthy(props[b].viewModel)
        /\ buckets = << >>

\* --------------------------------------------------------------- C7
\* this step re-renders mounted class Binder b with another identifier and
\* the same viewModel prop
IdentifierChanged(b) ==
    /\ kind[b] \in ClassKinds
    /\ phase[b] = "mounted"
    /\ props'[b].viewModelIdentifier # props[b].viewModelIdentifier
    /\ props'[b].viewModel = props[b].viewModel

Effects == Lifecycle \cup {"onBind", "onUnbind", "viewModelResolver", "setState"}

RebindCompleted(b) ==
    /\ kind[b] \in ClassKinds
    /\ phase[b] = "mounted"
    /\ pending[b] = Undefined
    /\ Len(log[b]) > 2
    /\ log[b][Len(log[b])].ev = "onBind"
    /\ log[b][Len(log[b]) - 1].ev = "setState"

\* the instance b had bound before the one it bound last
BoundBefore(b) ==
    LET B == Only(log[b], {"onBind"})
    IN  B[Len(B) - 1].vm

\* C8: with a single Binder on the Registry, once a rebind of it from an
\* instance u1 to an explicit instance u2 different from u1 has completed,
\* locateFirst(id) returns u2 and u1 is a member of no set of the mapping.
C8_RebindReplaces ==
    \A b \in Binders :
        LET u1 == BoundBefore(b)
            u2 == props[b].viewModel
        IN  (RebindCompleted(b) /\ Truthy(u2) /\ u1 # u2) =>
                /\ locateFirst(buckets, vmIdentifier[b]) = u2
                /\ \A k \in DOMAIN buckets : u1 \notin Range(buckets[k])
                /\ model[b] = u2

\* the scenario: the Binder was constructed with the resolver returning
\* instance 1 (located first then), and was rebound to explicit instance 2
C8_Witness ==
    \E b \in Binders :
        /\ RebindCompleted(b)
        /\ log[b][2].ev = "viewModelResolver" /\ log[b][2].vm = 1
        /\ log[b][3].ev = "onBind" /\ log[b][3].vm = 1 /\ ~log[b][3].reg
        /\ props[b].viewModel = 2
        /\ vmIdentifier[b] = "UserVM"
        /\ locateFirst(buckets, "UserVM") = 2

\* --------------------------------------------------------------- C9
\* this step is a mount handler of class Binder b
MountStep(b) ==
    /\ kind[b] \in ClassKinds
    /\ phase[b] \in {"constructed", "willMount"}
    /\ phase'[b] \in {"willMount", "mounted"}
    /\ phase'[b] # phase[b]

\* the names of the events, in order
Names(evs) == [i \in 1..Len(evs) |-> evs[i].ev]

\* C9: on mount of a Binder, onActivate and then onViewLoaded are dispatched
\* to the bound instance in that order, each exactly once; a method the
\* instance lacks is skipped, the other one is still dispatched, and the
\* Registry and the bound instance are left as they were.
C9_MountDispatch ==
    [][\A b \in Binders :
        MountStep(b) =>
            /\ buckets' = buckets
            /\ model'[b] = model[b]
            /\ phase'[b] = "mounted" =>
                  LET D == Only(log'[b], {"onActivate", "onViewLoaded"})
                      has == Implements(model[b])
                  IN  /\ Names(D) =
                            (IF "onActivate" \in has THEN <<"onActivate">> ELSE << >>)
                            \o (IF "onViewLoaded" \in has THEN <<"onViewLoaded">> ELSE << >>)
                      /\ \A i \in 1..Len(D) : D[i].vm = model[b]
                      /\ Only(log'[b], {"onDeactivate"}) = << >>]_vars

\* a Binder is mounted whose instance has both methods: onActivate, then
\* onViewLoaded were dispatched to it
C9_Witness ==
    \E b \in Binders :
        /\ kind[b] \in ClassKinds
        /\ phase[b] = "mounted"
        /\ Names(Only(log[b], Lifecycle)) = <<"onActivate", "onViewLoaded">>

\* -------------------------------------------------------------- C10
\* C10: at construction and at every rebind of a Binder given an explicit
\* instance, the bound instance is that explicit instance and the resolver
\* is not called; the resolver is called, once, with the identifier and the
\* remaining props, only when no explicit instance is supplied, and its
\* result is the bound instance.  No other step of the Binder calls it.
C10_ExplicitInstanceFirst ==
    [][\A b \in Binders :
        LET R == Only(NewEvents(b), {"viewModelResolver"})
            bound == IF Constructed(b) THEN model'[b] ELSE pending'[b]
        IN  /\ (Constructed(b) \/ Rebinding(b)) =>
                  IF Truthy(props'[b].viewModel)
                  THEN R = << >> /\ bound = props'[b].viewModel
                  ELSE /\ Len(R) = 1
                       /\ R[1].id = props'[b].viewModelIdentifier
                       /\ R[1].arg = "props"
                       /\ bound = R[1].vm
            /\ (kind'[b] \in ClassKinds /\ ~Constructed(b) /\ ~Rebinding(b)) => R = << >>
            /\ (kind[b] \in ClassKinds /\ pending[b] # Undefined /\ pending'[b] = Undefined) =>
                  /\ model'[b] = pending[b]
                  /\ Truthy(props[b].viewModel) => model'[b] = props[b].viewModel]_vars

\* a Binder was constructed with an explicit instance and rebound to another
\* explicit instance, which is now its model; the resolver was never called
C10_Witness ==
    \E b \in Binders :
        /\ RebindCompleted(b)
        /\ Truthy(log[b][1].vm)
        /\ Truthy(props[b].viewModel)
        /\ props[b].viewModel # log[b][1].vm
        /\ model[b] = props[b].viewModel
        /\ Only(log[b], {"viewModelResolver"}) = << >>

\* -------------------------------------------------------------- C11
\* this step is the first render of b's entry point (bindViewModel's wrapper
\* or useViewModel)
EntryStep(b) == phase[b] = "none" /\ phase'[b] # "none"

\* C11: if the context supplies no resolver or no registry, both entry
\* points raise a configuration error before any Binder is constructed: the
\* resolver is not invoked, no lifecycle method is dispatched, nothing is
\* bound, the Registry is left unchanged, and nothing happens afterwards.
C11_ConfigurationErrorFirst ==
    [][\A b \in Binders :
        /\ (EntryStep(b) /\ ~(context'[b].resolver /\ context'[b].registry)) =>
              /\ error'[b] \in {"Resolver has not been provided!",
                                "Registry has not been provided!"}
              /\ phase'[b] = "failed"
              /\ log'[b] = << >>
              /\ model'[b] = Undefined
              /\ buckets' = buckets
        /\ phase[b] = "failed" =>
              /\ phase'[b] = "failed"
              /\ log'[b] = << >>
              /\ error'[b] = error[b]]_vars

\* an entry point found a resolver and no registry in its context and threw,
\* while another Binder is mounted with its instance registered
C11_Witness ==
    \E b \in Binders, c \in Binders :
        /\ context[b].resolver /\ ~context[b].registry
        /\ error[b] = "Registry has not been provided!"
        /\ log[b] = << >>
        /\ phase[c] = "mounted"
        /\ model[c] \in InstancesOf(buckets, vmIdentifier[c])

\* -------------------------------------------------------------- C12
\* this step is the call removeInstance(k, v)
RemoveCalled(k, v) ==
    calls' = Last2(calls, [op |-> "removeInstance", id |-> k, vm |-> v])

\* C12: removeInstance(k, v) called when k has no entry, or when v is not in
\* k's set, leaves the entire registry mapping unchanged: no key added, no
\* key removed, no set altered.
C12_RemoveAbsentIsNoOp ==
    [][\A k \in Ids, v \in Instances :
        (RemoveCalled(k, v) /\ (k \notin DOMAIN buckets \/ v \notin Range(buckets[k]))) =>
            /\ DOMAIN buckets' = DOMAIN buckets
            /\ \A j \in DOMAIN buckets : buckets'[j] = buckets[j]]_vars

\* removeInstance(k, v) was called right after addInstance(k, u) with u # v,
\* v not being in k's set: the set still holds u; another key has no entry
C12_Witness ==
    \E k \in Ids, u \in Instances, v \in Instances :
        /\ u # v
        /\ calls = <<[op |-> "addInstance", id |-> k, vm |-> u],
                     [op |-> "removeInstance", id |-> k, vm |-> v]>>
        /\ buckets[k] = <<u>>
        /\ DOMAIN buckets = {k}

\* -------------------------------------------------------------- C13
\* what the hook's effect and its cleanup do, in order, for an instance m
EffectCalls(m) ==
    <<"onBind">> \o (IF "onActivate" \in Implements(m) THEN <<"onActivate">> ELSE << >>)

CleanupCalls(m) ==
    (IF "onDeactivate" \in Implements(m) THEN <<"onDeactivate">> ELSE << >>) \o <<"onUnbind">>

\* C13: for the hook form, over one mount with re-renders in between: onBind
\* followed by onActivate happens exactly once, onDeactivate followed by
\* onUnbind exactly once at unmount (a method the instance lacks is skipped),
\* all on the instance of the first render, which stays the model on every
\* render whatever the resolver returns on later renders.
C13_HookBindsOnce ==
    \A b \in Binders :
        (kind[b] = "useBinder" /\ (Live(b) \/ phase[b] = "unmounted")) =>
            LET done == Only(log[b], Lifecycle \cup {"onBind", "onUnbind", "setState"})
                m == log[b][2].vm
            IN  /\ log[b][2].ev = "viewModelResolver"
                /\ model[b] = m
                /\ pending[b] = Undefined
                /\ \A i \in 1..Len(done) : done[i].vm = m
                /\ Names(done) =
                      CASE phase[b] = "constructed" -> << >>
                        [] phase[b] = "mounted" -> EffectCalls(m)
                        [] OTHER -> EffectCalls(m) \o CleanupCalls(m)

\* a hook Binder went through mount, a re-render in which the resolver
\* returned another instance, and unmount; its instance has both methods
C13_Witness ==
    \E b \in Binders :
        /\ kind[b] = "useBinder"
        /\ phase[b] = "unmounted"
        /\ {"onActivate", "onDeactivate"} \subseteq Implements(model[b])
        /\ \E i \in 3..Len(log[b]) :
              log[b][i].ev = "viewModelResolver" /\ log[b][i].vm # model[b]
        /\ Names(Only(log[b], Lifecycle \cup {"onBind", "onUnbind"})) =
              <<"onBind", "onActivate", "onDeactivate", "onUnbind">>

\* -------------------------------------------------------------- C14
\* this step is a call of the Locator (the Registry is not touched)
LocatorCalled(op, k) ==
    /\ held'.op = op
    /\ held'.id = k
    /\ UNCHANGED <<buckets, calls>>

\* C14: locateFirst(k) returns null exactly when no instance is registered
\* under k, and otherwise returns an instance that is a member of k's set.
C14_LocateFirstNullIffNone ==
    [][\A k \in Ids :
        LocatorCalled("locateFirst", k) =>
            LET x == held'.value
                none == k \notin DOMAIN buckets \/ Range(buckets[k]) = {}
            IN  /\ (x = Null) <=> none
                /\ x # Null => (k \in DOMAIN buckets /\ x \in Range(buckets[k]))]_vars

\* locateFirst was called for a key holding two instances and returned one
\* of them
C14_Witness ==
    /\ held.op = "locateFirst"
    /\ held.id \in DOMAIN buckets
    /\ Len(buckets[held.id]) = 2
    /\ held.value \in Range(buckets[held.id])
    /\ Len(calls) = 2
    /\ calls[2].op = "addInstance"

C16_NoActivationOnRebind ==
    \A b \in Binders :
        kind[b] \in ClassKinds =>
            \A i \in 1..Len(log[b]) :
                log[b][i].ev = "setState" =>
                    /\ \A j \in (i + 1)..Len(log[b]) :
                          log[b][j].ev \notin {"onActivate", "onViewLoaded"}
                    /\ (/\ phase[b] = "unmounted"
                        /\ \A j \in (i + 1)..Len(log[b]) : log[b][j].ev # "setState") =>
                          Names(Only(SubSeq(log[b], i + 1, Len(log[b])),
                                     Lifecycle \cup {"onBind", "onUnbind"})) =
                              <<"onBind">> \o CleanupCalls(log[b][i].vm)

\* a Binder was rebound from an instance that got onActivate to one that has
\* all three methods, and was unmounted: the new instance got onDeactivate only
C16_Witness ==
    \E b \in Binders :
        /\ kind[b] = "Binder"
        /\ phase[b] = "unmounted"
        /\ Implements(model[b]) = Lifecycle
        /\ \E i \in 1..Len(log[b]) : log[b][i].ev = "setState" /\ log[b][i].vm = model[b]
        /\ LET D == Only(log[b], Lifecycle)
           IN  /\ Len(D) = 2
               /\ D[1].ev = "onActivate" /\ D[1].vm # model[b]
               /\ D[2].ev = "onDeactivate" /\ D[2].vm = model[b]

\* -------------------------------------------------------------- C17
\* this step is componentDidUpdate of class Binder b
Updated(b) ==
    /\ kind[b] \in ClassKinds
    /\ Len(NewEvents(b)) > 1
    /\ NewEvents(b)[1].ev = "prevProps"
    /\ NewEvents(b)[2].ev = "componentDidUpdate"

\* the viewModel props before and after are the same object, or are both
\* null or undefined
SameInstanceProp(b) ==
    \/ props'[b].viewModel = props[b].viewModel
    \/ {props'[b].viewModel, props[b].viewModel} = {Undefined, Null}

\* C17: an update of a mounted Binder in which the explicit instance prop is
\* unchanged (null and undefined comparing equal) leaves the bound instance
\* and the Registry unchanged and dispatches no lifecycle method; the bound
\* instance of a Binder changes only when a rebind completes.
C17_UnchangedPropDoesNothing ==
    [][\A b \in Binders :
        /\ (Updated(b) /\ SameInstanceProp(b)) =>
              /\ Len(NewEvents(b)) = 2
              /\ buckets' = buckets
              /\ model'[b] = model[b]
              /\ pending'[b] = pending[b]
        /\ (kind[b] \in ClassKinds /\ Live(b) /\ model'[b] # model[b]) =>
              /\ pending[b] # Undefined
              /\ model'[b] = pending[b]
              /\ \E i \in 1..Len(log[b]) : log[b][i].ev = "setState"]_vars

\* a mounted Binder constructed without an explicit instance was updated
\* with viewModel = null: nothing was called and its instance is registered
C17_Witness ==
    \E b \in Binders :
        /\ kind[b] \in ClassKinds
        /\ phase[b] = "mounted"
        /\ props[b].viewModel = Null
        /\ Len(log[b]) > 1
        /\ LET n == Len(log[b])
           IN  /\ log[b][n].ev = "componentDidUpdate" /\ log[b][n].vm = Null
               /\ log[b][n - 1].ev = "prevProps" /\ log[b][n - 1].vm = Undefined
        /\ pending[b] = Undefined
        /\ model[b] \in InstancesOf(buckets, vmIdentifier[b])

\* -------------------------------------------------------------- C18
\* the argument the claim names for each lifecycle method
Expected(method) ==
    CASE method = "onActivate" -> "props"
      [] method = "onViewLoaded" -> "viewRef"
      [] OTHER -> "none"

\* C18 as stated: in every Binder variant onActivate is dispatched with the
\* Binder's props value itself as its argument, onViewLoaded with the view
\* handle itself, and onDeactivate with no argument.
C18_Original ==
    \A b \in Binders :
        \A i \in 1..Len(log[b]) :
            log[b][i].ev \in Lifecycle => log[b][i].arg = Expected(log[b][i].ev)

\* a Binder of the earlier revision is mounted and its instance's onActivate
\* received the array of arguments instead of the props
C18_Witness ==
    \E b \in Binders :
        /\ kind[b] = "BinderLegacy"
        /\ phase[b] = "mounted"
        /\ \E i \in 1..Len(log[b]) :
              log[b][i].ev = "onActivate" /\ log[b][i].arg = "[props]"

\* -------------------------------------------------------------- C19
\* Binder b has bound and registered an instance, is not unmounted and is
\* not in the middle of a rebind (the hook registers in its effect)
Settled(b) ==
    /\ Live(b)
    /\ pending[b] = Undefined
    /\ kind[b] = "useBinder" => phase[b] = "mounted"

\* C19 as stated: for any number of Binders sharing one Registry and any
\* interleaving of their constructions, rebinds and unmounts, Binders bound
\* to the same instance under the same identifier included: whenever a
\* Binder is constructed, not unmounted and not in the middle of a rebind,
\* its bound instance is a member of the Registry's set for its identifier.
C19_Original ==
    \A b \in Binders :
        Settled(b) => model[b] \in InstancesOf(buckets, vmIdentifier[b])

\* two class Binders were given the same explicit instance under the same
\* identifier; one has unmounted, the other is mounted and its instance is
\* registered nowhere
C19_Witness ==
    \E b \in Binders, c \in Binders :
        /\ b # c
        /\ kind[b] = "Binder" /\ kind[c] = "Binder"
        /\ phase[b] = "unmounted"
        /\ phase[c] = "mounted" /\ pending[c] = Undefined
        /\ vmIdentifier[b] = vmIdentifier[c]
        /\ model[b] = model[c]
        /\ props[b].viewModel = model[b] /\ props[c].viewModel = model[c]
        /\ locateFirst(buckets, vmIdentifier[c]) = Null

\* -------------------------------------------------------------- C20
\* every Binder that was rendered has unmounted (or its entry point threw)
AllUnmounted == \A b \in Binders : phase[b] \in {"none", "failed", "unmounted"}

\* C20: for any number of Binders (class or hook form) sharing one initially
\* empty Registry and any interleaving of their constructions, mounts,
\* rebinds and unmounts: once every Binder has unmounted, the registry
\* mapping is empty.
C20_EmptyAfterAllUnmounted ==
    AllUnmounted => (DOMAIN buckets = {} /\ \A k \in Ids : locateMany(buckets, k) = << >>)

\* two Binders that were bound to the same instance under the same
\* identifier, one of them by a rebind, have both unmounted
C20_Witness ==
    /\ \A b \in Binders : phase[b] = "unmounted"
    /\ \A b \in Binders, c \in Binders :
          model[b] = model[c] /\ vmIdentifier[b] = vmIdentifier[c]
    /\ \E b \in Binders : \E i \in 1..Len(log[b]) : log[b][i].ev = "setState"
    /\ buckets = << >>

====
